---- MODULE Spec2Model ----
(***************************************************************************)
(* The two sample calculators of the repository:                           *)
(*   src/samples/C/calculator.c           (calculator_t)                   *)
(*   src/samples/CPlusPlus/calculator.cpp (AdvancedCalculator<double>)     *)
(* One behaviour runs one of the two programs (prog).  A double is a       *)
(* fixed-point number: the integer v stands for v / Unit.  The timestamp   *)
(* of a history entry is an opaque clock value and is left out.            *)
(***************************************************************************)
EXTENDS Integers, Sequences, FiniteSets, TLC

VARIABLES
    prog,    \* "C" or "CPP": which sample program runs
    pc,      \* "ready", or "failed" when construction returned an error
    calc,    \* the calculator_t struct / the AdvancedCalculator object
    call,    \* the call made last, with its arguments
    error,   \* what that call returned (calc_error_t) or threw (C++)
    result,  \* the caller's `double result` / the value returned last
    errno,   \* the C library's errno
    epoch,   \* "init"/"cleared": the ledger was last emptied by construction /
             \* by a clear and the history has been enabled ever since;
             \* "none" otherwise
    nsucc    \* successful operations in this epoch (0 when epoch is "none")

vars == <<prog, pc, calc, call, error, result, errno, epoch, nsucc>>

----------------------------------------------------------------------------
(* Program constants *)

MAX_HISTORY == 100
MAX_NAME_LENGTH == 50

CALC_SUCCESS == "CALC_SUCCESS"
CALC_ERROR_DIVISION_BY_ZERO == "CALC_ERROR_DIVISION_BY_ZERO"
CALC_ERROR_INVALID_INPUT == "CALC_ERROR_INVALID_INPUT"
CALC_ERROR_OVERFLOW == "CALC_ERROR_OVERFLOW"
CALC_ERROR_NEGATIVE_ROOT == "CALC_ERROR_NEGATIVE_ROOT"

NULL == "NULL"
ERANGE == "ERANGE"
NoErrno == "0"

\* C++: no exception left the call / the messages of CalculatorException
NoThrow == "none"
DivisionByZero == "Division by zero"
NegativeRoot == "Cannot calculate square root of negative number"
EmptyAverage == "Cannot calculate average of empty vector"
InvalidBinary == "Invalid binary operation"

----------------------------------------------------------------------------
(* Bounds of the model *)

\* C++ history lengths explored (the vector itself has no limit)
MaxLen == 101
\* nsucc counts up to MaxOps and stays there ("MaxOps or more")
MaxOps == 101

----------------------------------------------------------------------------
(* double arithmetic, fixed point *)

\* v stands for v / Unit
Unit == 100
\* largest finite magnitude; beyond it a result is +-HUGE_VAL (infinity)
DBL_MAX == 10000 * Unit
HUGE_VAL == DBL_MAX + 1

Abs(x) == IF x < 0 THEN -x ELSE x
Sgn(x) == IF x < 0 THEN -1 ELSE IF x > 0 THEN 1 ELSE 0

\* round(3): n/d to the nearest integer, halfway cases away from zero (d > 0)
Round(n, d) == Sgn(n) * ((2 * Abs(n) + d) \div (2 * d))

\* a result outside the finite range becomes an infinity
Finite(x) ==
    IF x > DBL_MAX THEN HUGE_VAL
    ELSE IF x < -DBL_MAX THEN -HUGE_VAL
    ELSE x

IsInf(x) == Abs(x) > DBL_MAX

DAdd(a, b) == Finite(a + b)
DSub(a, b) == Finite(a - b)
DMul(a, b) == Finite(Round(a * b, Unit))
\* b # 0
DDiv(a, b) == Finite(Round(Sgn(b) * a * Unit, Abs(b)))

\* sqrt(3) of x >= 0, to the nearest representable value
DSqrt(x) ==
    LET n == x * Unit
        s == CHOOSE r \in 0..(x + Unit) : r * r <= n /\ (r + 1) * (r + 1) > n
    IN  IF n - s * s > (s + 1) * (s + 1) - n THEN s + 1 ELSE s

RECURSIVE PowIter(_, _, _)
\* acc * base^n, stopping once the magnitude has left the finite range
PowIter(acc, base, n) ==
    IF n = 0 \/ Abs(acc) > DBL_MAX THEN acc
    ELSE PowIter(Round(acc * base, Unit), base, n - 1)

\* pow(3) for a whole-number exponent: the value, and whether the library
\* reports a range error (overflow, or the pole 0^negative) through errno
Pow(base, exponent) ==
    LET n    == Abs(exponent) \div Unit
        mag  == PowIter(Unit, Abs(base), n)
        sign == IF base < 0 /\ n % 2 = 1 THEN -1 ELSE 1
    IN  IF exponent >= 0
        THEN IF mag > DBL_MAX
             THEN [value |-> sign * HUGE_VAL, range |-> TRUE]
             ELSE [value |-> sign * mag, range |-> FALSE]
        ELSE IF base = 0
             THEN [value |-> HUGE_VAL, range |-> TRUE]
             ELSE [value |-> sign * Round(Unit * Unit, mag), range |-> FALSE]

RECURSIVE Pow10(_)
Pow10(k) == IF k = 0 THEN 1 ELSE 10 * Pow10(k - 1)

\* round(value * factor) / factor with factor = pow(10.0, precision)
round_to_precision(value, precision) ==
    IF IsInf(value) THEN value
    ELSE IF precision >= 0
         THEN Round(Round(value * Pow10(precision), Unit) * Unit, Pow10(precision))
         ELSE Round(value, Unit * Pow10(-precision)) * Unit * Pow10(-precision)

----------------------------------------------------------------------------
(* C: src/samples/C/calculator.c *)

Min(x, y) == IF x < y THEN x ELSE y

\* strncpy(dest, src, n): the string dest holds afterwards, once the caller
\* has set dest[n] = '\0'
strncpy(src, n) == SubSeq(src, 1, Min(Len(src), n))

\* A calculator_t no one has written yet.  Its bytes are indeterminate; no
\* function reads them before calculator_init has succeeded.
Uninitialized ==
    [name |-> <<>>, precision |-> 0, history |-> <<>>, history_count |-> 0,
     enable_history |-> FALSE]

\* Faulty variant: the capacity check is missing.
add_to_history_NoLimit(c, operation, operand1, operand2, res) ==
    IF ~c.enable_history
    THEN c
    ELSE [c EXCEPT
            !.history = Append(SubSeq(@, 1, c.history_count),
                               [operation |-> operation,
                                operands  |-> <<operand1, operand2>>,
                                result    |-> res]),
            !.history_count = @ + 1]

\* Faulty variant: a full ledger drops its oldest entry to take the new one.
add_to_history_Sliding(c, operation, operand1, operand2, res) ==
    LET entry == [operation |-> operation,
                  operands  |-> <<operand1, operand2>>,
                  result    |-> res]
    IN  IF ~c.enable_history THEN c
        ELSE IF c.history_count >= MAX_HISTORY
        THEN [c EXCEPT !.history = Append(Tail(@), entry)]
        ELSE [c EXCEPT !.history = Append(SubSeq(@, 1, c.history_count), entry),
                       !.history_count = @ + 1]

\* history holds the slots 0 .. history_count-1 (as 1 .. history_count); the
\* slots above are written before they are read and are not kept.
add_to_history(c, operation, operand1, operand2, res) ==
    IF ~c.enable_history \/ c.history_count >= MAX_HISTORY
    THEN c
    ELSE [c EXCEPT
            !.history = Append(SubSeq(@, 1, c.history_count),
                               [operation |-> operation,
                                operands  |-> <<operand1, operand2>>,
                                result    |-> res]),
            !.history_count = @ + 1]

\* Faulty variant: the name is copied whole, not cut to the buffer.
calculator_init_NoTruncate(calcp, name, precision) ==
    IF calcp = NULL \/ name.null
    THEN [error |-> CALC_ERROR_INVALID_INPUT, calc |-> Uninitialized]
    ELSE [error |-> CALC_SUCCESS,
          calc  |-> [name |-> name.chars,
                     precision |-> precision,
                     history |-> <<>>,
                     history_count |-> 0,
                     enable_history |-> TRUE]]

\* name: [null, chars], the const char * argument
calculator_init(calcp, name, precision) ==
    IF calcp = NULL \/ name.null
    THEN [error |-> CALC_ERROR_INVALID_INPUT, calc |-> Uninitialized]
    ELSE [error |-> CALC_SUCCESS,
          calc  |-> [name |-> strncpy(name.chars, MAX_NAME_LENGTH - 1),
                     precision |-> precision,
                     history |-> <<>>,
                     history_count |-> 0,
                     enable_history |-> TRUE]]

\* The engine functions.  rp is the result pointer, m = [result, errno] the
\* memory they may write; they return the error code and the memory after.
calc_add(a, b, rp, m) ==
    IF rp = NULL THEN [error |-> CALC_ERROR_INVALID_INPUT, mem |-> m]
    ELSE [error |-> CALC_SUCCESS, mem |-> [m EXCEPT !.result = DAdd(a, b)]]

calc_subtract(a, b, rp, m) ==
    IF rp = NULL THEN [error |-> CALC_ERROR_INVALID_INPUT, mem |-> m]
    ELSE [error |-> CALC_SUCCESS, mem |-> [m EXCEPT !.result = DSub(a, b)]]

calc_multiply(a, b, rp, m) ==
    IF rp = NULL THEN [error |-> CALC_ERROR_INVALID_INPUT, mem |-> m]
    ELSE [error |-> CALC_SUCCESS, mem |-> [m EXCEPT !.result = DMul(a, b)]]

\* Faulty variant: the divisor is not checked; a / 0 is an infinity.
calc_divide_NoZeroCheck(a, b, rp, m) ==
    IF rp = NULL THEN [error |-> CALC_ERROR_INVALID_INPUT, mem |-> m]
    ELSE [error |-> CALC_SUCCESS,
          mem |-> [m EXCEPT !.result = IF b = 0 THEN HUGE_VAL ELSE DDiv(a, b)]]

calc_divide(a, b, rp, m) ==
    IF rp = NULL THEN [error |-> CALC_ERROR_INVALID_INPUT, mem |-> m]
    ELSE IF b = 0 THEN [error |-> CALC_ERROR_DIVISION_BY_ZERO, mem |-> m]
    ELSE [error |-> CALC_SUCCESS, mem |-> [m EXCEPT !.result = DDiv(a, b)]]

\* *result = pow(base, exponent); if (errno == ERANGE) ...: pow sets errno
\* on a range error and leaves it alone otherwise; nothing resets it.
calc_power(base, exponent, rp, m) ==
    IF rp = NULL THEN [error |-> CALC_ERROR_INVALID_INPUT, mem |-> m]
    ELSE LET p  == Pow(base, exponent)
             m1 == [result |-> p.value,
                    errno  |-> IF p.range THEN ERANGE ELSE m.errno]
         IN  IF m1.errno = ERANGE
             THEN [error |-> CALC_ERROR_OVERFLOW, mem |-> m1]
             ELSE [error |-> CALC_SUCCESS, mem |-> m1]

calc_square(x, rp, m) ==
    IF rp = NULL THEN [error |-> CALC_ERROR_INVALID_INPUT, mem |-> m]
    ELSE [error |-> CALC_SUCCESS, mem |-> [m EXCEPT !.result = DMul(x, x)]]

calc_sqrt(x, rp, m) ==
    IF rp = NULL THEN [error |-> CALC_ERROR_INVALID_INPUT, mem |-> m]
    ELSE IF x < 0 THEN [error |-> CALC_ERROR_NEGATIVE_ROOT, mem |-> m]
    ELSE [error |-> CALC_SUCCESS, mem |-> [m EXCEPT !.result = DSqrt(x)]]

\* the call through a binary_op_func pointer
binary_op_func(f, a, b, rp, m) ==
    CASE f = "calc_add"      -> calc_add(a, b, rp, m)
      [] f = "calc_subtract" -> calc_subtract(a, b, rp, m)
      [] f = "calc_multiply" -> calc_multiply(a, b, rp, m)
      [] f = "calc_divide"   -> calc_divide(a, b, rp, m)
      [] f = "calc_power"    -> calc_power(a, b, rp, m)

\* the call through a unary_op_func pointer
unary_op_func(f, a, rp, m) ==
    CASE f = "calc_square" -> calc_square(a, rp, m)
      [] f = "calc_sqrt"   -> calc_sqrt(a, rp, m)

\* Faulty variant: the entry is logged before the error code is looked at.
perform_binary_operation_LogsFailure(c, x, m) ==
    IF x.calc = NULL \/ x.op_func = NULL \/ x.result = NULL
    THEN [error |-> CALC_ERROR_INVALID_INPUT, calc |-> c, mem |-> m]
    ELSE LET r == binary_op_func(x.op_func, x.a, x.b, x.result, m)
             v == round_to_precision(r.mem.result, c.precision)
         IN  [error |-> r.error,
              calc  |-> add_to_history(c, x.operation, x.a, x.b, v),
              mem   |-> IF r.error = CALC_SUCCESS
                        THEN [r.mem EXCEPT !.result = v] ELSE r.mem]

\* x: [calc, a, b, operation, op_func, result], the arguments; c the struct
\* behind a non-null calc.  Returns the error code, the struct and the memory.
perform_binary_operation(c, x, m) ==
    IF x.calc = NULL \/ x.op_func = NULL \/ x.result = NULL
    THEN [error |-> CALC_ERROR_INVALID_INPUT, calc |-> c, mem |-> m]
    ELSE LET r == binary_op_func(x.op_func, x.a, x.b, x.result, m)
         IN  IF r.error = CALC_SUCCESS
             THEN LET v == round_to_precision(r.mem.result, c.precision)
                  IN  [error |-> r.error,
                       calc  |-> add_to_history(c, x.operation, x.a, x.b, v),
                       mem   |-> [r.mem EXCEPT !.result = v]]
             ELSE [error |-> r.error, calc |-> c, mem |-> r.mem]

\* Faulty variant: the operand is passed on as the second operand too.
perform_unary_operation_RepeatsOperand(c, x, m) ==
    IF x.calc = NULL \/ x.op_func = NULL \/ x.result = NULL
    THEN [error |-> CALC_ERROR_INVALID_INPUT, calc |-> c, mem |-> m]
    ELSE LET r == unary_op_func(x.op_func, x.a, x.result, m)
         IN  IF r.error = CALC_SUCCESS
             THEN LET v == round_to_precision(r.mem.result, c.precision)
                  IN  [error |-> r.error,
                       calc  |-> add_to_history(c, x.operation, x.a, x.a, v),
                       mem   |-> [r.mem EXCEPT !.result = v]]
             ELSE [error |-> r.error, calc |-> c, mem |-> r.mem]

\* x: [calc, a, operation, op_func, result]
perform_unary_operation(c, x, m) ==
    IF x.calc = NULL \/ x.op_func = NULL \/ x.result = NULL
    THEN [error |-> CALC_ERROR_INVALID_INPUT, calc |-> c, mem |-> m]
    ELSE LET r == unary_op_func(x.op_func, x.a, x.result, m)
         IN  IF r.error = CALC_SUCCESS
             THEN LET v == round_to_precision(r.mem.result, c.precision)
                  IN  [error |-> r.error,
                       calc  |-> add_to_history(c, x.operation, x.a, 0, v),
                       mem   |-> [r.mem EXCEPT !.result = v]]
             ELSE [error |-> r.error, calc |-> c, mem |-> r.mem]

\* Faulty variant: a full ledger is not reset.
clear_history_NotWhenFull(calcp, c) ==
    IF calcp # NULL /\ c.history_count < MAX_HISTORY
    THEN [c EXCEPT !.history_count = 0, !.history = <<>>] ELSE c

\* if (calc) calc->history_count = 0;
clear_history(calcp, c) ==
    IF calcp # NULL THEN [c EXCEPT !.history_count = 0, !.history = <<>>] ELSE c

----------------------------------------------------------------------------
(* C++: src/samples/CPlusPlus/calculator.cpp, AdvancedCalculator<double> *)

\* a method's outcome: the exception it threw (or NoThrow), the object
\* afterwards and, when it returned, the value returned
Returned(c, v) == [thrown |-> NoThrow, calc |-> c, ret |-> v]
Threw(c, what) == [thrown |-> what, calc |-> c]

CalculatorBase(name, precision) ==
    [name |-> name, precision |-> precision, history |-> <<>>,
     enable_history |-> TRUE]

clearHistory(c) == [c EXCEPT !.history = <<>>]

setHistoryEnabled(c, enabled) == [c EXCEPT !.enable_history = enabled]

\* Faulty variant: the history flag is not looked at.
addToHistory_IgnoresFlag(c, op, operands, res) ==
    [c EXCEPT !.history =
        Append(@, [operation |-> op, operands |-> operands, result |-> res])]

addToHistory(c, op, operands, res) ==
    IF c.enable_history
    THEN [c EXCEPT !.history =
            Append(@, [operation |-> op, operands |-> operands, result |-> res])]
    ELSE c

roundToPrecision(c, value) == round_to_precision(value, c.precision)

add(c, a, b) ==
    LET res == roundToPrecision(c, DAdd(a, b))
    IN  Returned(addToHistory(c, "ADD", <<a, b>>, res), res)

subtract(c, a, b) ==
    LET res == roundToPrecision(c, DSub(a, b))
    IN  Returned(addToHistory(c, "SUBTRACT", <<a, b>>, res), res)

multiply(c, a, b) ==
    LET res == roundToPrecision(c, DMul(a, b))
    IN  Returned(addToHistory(c, "MULTIPLY", <<a, b>>, res), res)

divide(c, a, b) ==
    IF b = 0 THEN Threw(c, DivisionByZero)
    ELSE LET res == roundToPrecision(c, DDiv(a, b))
         IN  Returned(addToHistory(c, "DIVIDE", <<a, b>>, res), res)

square(c, x) ==
    LET res == roundToPrecision(c, DMul(x, x))
    IN  Returned(addToHistory(c, "SQUARE", <<x>>, res), res)

\* std::pow with no range check: an overflow is logged as infinity
power(c, base, exponent) ==
    LET res == roundToPrecision(c, Pow(base, exponent).value)
    IN  Returned(addToHistory(c, "POWER", <<base, exponent>>, res), res)

sqrt(c, x) ==
    IF x < 0 THEN Threw(c, NegativeRoot)
    ELSE LET res == roundToPrecision(c, DSqrt(x))
         IN  Returned(addToHistory(c, "SQRT", <<x>>, res), res)

RECURSIVE accumulate(_, _)
accumulate(numbers, init) ==
    IF numbers = <<>> THEN init
    ELSE accumulate(Tail(numbers), DAdd(init, Head(numbers)))

average(c, numbers) ==
    IF numbers = <<>> THEN Threw(c, EmptyAverage)
    ELSE LET sum == accumulate(numbers, 0)
             res == roundToPrecision(c, DDiv(sum, Len(numbers) * Unit))
         IN  Returned(addToHistory(c, "AVERAGE", numbers, res), res)

\* T operator()(T a, T b, OperationType op)
call_operator(c, a, b, op) ==
    CASE op = "ADD"      -> add(c, a, b)
      [] op = "SUBTRACT" -> subtract(c, a, b)
      [] op = "MULTIPLY" -> multiply(c, a, b)
      [] op = "DIVIDE"   -> divide(c, a, b)
      [] op = "POWER"    -> power(c, a, b)
      [] OTHER           -> Threw(c, InvalidBinary)

----------------------------------------------------------------------------
(* The callers' inputs *)

RECURSIVE Rep(_, _)
Rep(ch, n) == IF n = 0 THEN <<>> ELSE Append(Rep(ch, n - 1), ch)

\* a name longer than the name buffer: 51 characters
LongName == Rep("x", MAX_NAME_LENGTH - 2) \o <<"y", "z", "w">>

Names == {<<>>, LongName}
NameArgs ==
    {[null |-> TRUE, chars |-> <<>>]} \cup {[null |-> FALSE, chars |-> n] : n \in Names}
Precisions == {0, 1}

Operands == {-4 * Unit, 0, 10 * Unit}

\* (operation tag, function) as main passes them, and one pair that disagrees
BinaryPairs ==
    {<<"OP_ADD", "calc_add">>, <<"OP_SUBTRACT", "calc_subtract">>,
     <<"OP_MULTIPLY", "calc_multiply">>, <<"OP_DIVIDE", "calc_divide">>,
     <<"OP_POWER", "calc_power">>, <<"OP_ADD", "calc_multiply">>}
UnaryPairs == {<<"OP_SQUARE", "calc_square">>, <<"OP_SQRT", "calc_sqrt">>}

BinaryCall(cp, a, b, operation, f, rp) ==
    [calc |-> cp, a |-> a, b |-> b, operation |-> operation, op_func |-> f,
     result |-> rp]
UnaryCall(cp, a, operation, f, rp) ==
    [calc |-> cp, a |-> a, operation |-> operation, op_func |-> f, result |-> rp]

\* The calls a caller repeats to fill the ledger and to provoke the two
\* engine failures its own checks decide (main's last call is 10 / 0).
FillCall == BinaryCall("&calc", 10 * Unit, -4 * Unit, "OP_DIVIDE", "calc_divide", "&result")
DivideByZeroCall == BinaryCall("&calc", 10 * Unit, 0, "OP_DIVIDE", "calc_divide", "&result")
NegativeRootCall == UnaryCall("&calc", -4 * Unit, "OP_SQRT", "calc_sqrt", "&result")

BinaryArgs ==
    {BinaryCall("&calc", a, b, p[1], p[2], "&result") :
        a \in Operands, b \in Operands, p \in BinaryPairs}
    \cup {[FillCall EXCEPT !.calc = NULL],
          [FillCall EXCEPT !.op_func = NULL],
          [FillCall EXCEPT !.result = NULL]}
UnaryArgs ==
    {UnaryCall("&calc", a, p[1], p[2], "&result") : a \in Operands, p \in UnaryPairs}
    \cup {[NegativeRootCall EXCEPT !.calc = NULL],
          [NegativeRootCall EXCEPT !.op_func = NULL],
          [NegativeRootCall EXCEPT !.result = NULL]}

OperationTypes ==
    {"ADD", "SUBTRACT", "MULTIPLY", "DIVIDE", "POWER", "SQUARE", "SQRT", "AVERAGE"}
CppCall(a, b, op) == [a |-> a, b |-> b, op |-> op]
CppArgs == {CppCall(a, b, op) : a \in Operands, b \in Operands, op \in OperationTypes}
Vectors == {<<>>, <<10 * Unit>>, <<-4 * Unit, 0, 10 * Unit>>}

\* The callers explored.  Between the ledger sizes of Checkpoints a caller
\* only repeats FillCall; at a checkpoint it may also clear, toggle the
\* history and provoke the failures above; at the size FreeAt, where one slot
\* is left, its arguments range over the whole input sets.
Checkpoints == {0, 1, MAX_HISTORY - 1, MAX_HISTORY}
FreeAt == {MAX_HISTORY - 1}
AtCheckpoint == Len(calc.history) \in Checkpoints
Free == Len(calc.history) \in FreeAt

BinaryInputs ==
    IF Free THEN BinaryArgs
    ELSE IF AtCheckpoint THEN {FillCall, DivideByZeroCall}
    ELSE {FillCall}
UnaryInputs ==
    IF Free THEN UnaryArgs
    ELSE IF AtCheckpoint THEN {NegativeRootCall}
    ELSE {}

CppFill == CppCall(10 * Unit, -4 * Unit, "DIVIDE")
CppBinaryInputs ==
    IF Free THEN CppArgs
    ELSE IF AtCheckpoint THEN {CppFill, CppCall(10 * Unit, 0, "DIVIDE")}
    ELSE {CppFill}
CppSqrtInputs ==
    IF Free THEN Operands ELSE IF AtCheckpoint THEN {-4 * Unit} ELSE {}
CppAverageInputs ==
    IF Free THEN Vectors ELSE IF AtCheckpoint THEN {<<>>} ELSE {}

----------------------------------------------------------------------------
(* The state machine *)

Count(ok) == IF epoch # "none" /\ ok THEN Min(nsucc + 1, MaxOps) ELSE nsucc

InitC ==
    \E cp \in {"&calc", NULL}, nm \in NameArgs, pr \in Precisions :
        LET r == calculator_init(cp, nm, pr)
        IN  /\ prog = "C"
            /\ pc = IF r.error = CALC_SUCCESS THEN "ready" ELSE "failed"
            /\ calc = r.calc
            /\ call = [fn |-> "calculator_init", calc |-> cp, name |-> nm,
                       precision |-> pr]
            /\ error = r.error

InitCpp ==
    \E nm \in Names, pr \in Precisions :
        /\ prog = "CPP"
        /\ pc = "ready"
        /\ calc = CalculatorBase(nm, pr)
        /\ call = [fn |-> "CalculatorBase", name |-> nm, precision |-> pr]
        /\ error = NoThrow

Init ==
    /\ InitC \/ InitCpp
    /\ result = 0
    /\ errno = NoErrno
    /\ epoch = "init"
    /\ nsucc = 0

PerformBinary ==
    /\ prog = "C" /\ pc = "ready"
    /\ \E x \in BinaryInputs :
        LET r == perform_binary_operation(calc, x, [result |-> result, errno |-> errno])
        IN  /\ calc' = r.calc
            /\ call' = [fn |-> "perform_binary_operation", args |-> x]
            /\ error' = r.error
            /\ result' = r.mem.result
            /\ errno' = r.mem.errno
            /\ nsucc' = Count(r.error = CALC_SUCCESS)
    /\ UNCHANGED <<prog, pc, epoch>>

PerformUnary ==
    /\ prog = "C" /\ pc = "ready"
    /\ \E x \in UnaryInputs :
        LET r == perform_unary_operation(calc, x, [result |-> result, errno |-> errno])
        IN  /\ calc' = r.calc
            /\ call' = [fn |-> "perform_unary_operation", args |-> x]
            /\ error' = r.error
            /\ result' = r.mem.result
            /\ errno' = r.mem.errno
            /\ nsucc' = Count(r.error = CALC_SUCCESS)
    /\ UNCHANGED <<prog, pc, epoch>>

ClearHistory ==
    /\ prog = "C" /\ pc = "ready" /\ AtCheckpoint
    /\ \E cp \in {"&calc", NULL} :
        /\ calc' = clear_history(cp, calc)
        /\ call' = [fn |-> "clear_history", calc |-> cp]
        /\ epoch' = IF cp = NULL THEN epoch
                    ELSE IF calc.enable_history THEN "cleared" ELSE "none"
        /\ nsucc' = IF cp = NULL THEN nsucc ELSE 0
    /\ UNCHANGED <<prog, pc, error, result, errno>>

\* calculator_t has no setter: the caller assigns calc.enable_history
SetEnableHistory ==
    /\ prog = "C" /\ pc = "ready" /\ AtCheckpoint
    /\ \E b \in BOOLEAN :
        /\ calc' = [calc EXCEPT !.enable_history = b]
        /\ call' = [fn |-> "enable_history", enabled |-> b]
    /\ epoch' = "none" /\ nsucc' = 0
    /\ UNCHANGED <<prog, pc, error, result, errno>>

\* what a C++ call leaves in the caller's hands
CppOutcome(name, args, r) ==
    /\ calc' = r.calc
    /\ call' = [fn |-> name, args |-> args]
    /\ error' = r.thrown
    /\ result' = IF r.thrown = NoThrow THEN r.ret ELSE result
    /\ nsucc' = Count(r.thrown = NoThrow)
    /\ UNCHANGED <<prog, pc, errno, epoch>>

CppReady == prog = "CPP" /\ pc = "ready" /\ Len(calc.history) < MaxLen

CppBinary ==
    /\ CppReady
    /\ \E x \in CppBinaryInputs :
        CppOutcome("operator()", x, call_operator(calc, x.a, x.b, x.op))

CppSquare ==
    /\ CppReady /\ Free
    /\ \E x \in Operands : CppOutcome("square", x, square(calc, x))

CppSqrt ==
    /\ CppReady
    /\ \E x \in CppSqrtInputs :
        CppOutcome("sqrt", x, sqrt(calc, x))

CppAverage ==
    /\ CppReady
    /\ \E v \in CppAverageInputs :
        CppOutcome("average", v, average(calc, v))

CppClearHistory ==
    /\ prog = "CPP" /\ pc = "ready" /\ AtCheckpoint
    /\ calc' = clearHistory(calc)
    /\ call' = [fn |-> "clearHistory"]
    /\ epoch' = (IF calc.enable_history THEN "cleared" ELSE "none") /\ nsucc' = 0
    /\ UNCHANGED <<prog, pc, error, result, errno>>

CppSetHistoryEnabled ==
    /\ prog = "CPP" /\ pc = "ready" /\ AtCheckpoint
    /\ \E b \in BOOLEAN :
        /\ calc' = setHistoryEnabled(calc, b)
        /\ call' = [fn |-> "setHistoryEnabled", enabled |-> b]
    /\ epoch' = "none" /\ nsucc' = 0
    /\ UNCHANGED <<prog, pc, error, result, errno>>

Next ==
    \/ PerformBinary
    \/ PerformUnary
    \/ ClearHistory
    \/ SetEnableHistory
    \/ CppBinary
    \/ CppSquare
    \/ CppSqrt
    \/ CppAverage
    \/ CppClearHistory
    \/ CppSetHistoryEnabled

Spec == Init /\ [][Next]_vars

----------------------------------------------------------------------------
(* Vocabulary of the claims *)

Ledger == calc.history
Size == IF prog = "C" THEN calc.history_count ELSE Len(calc.history)

\* the calls that run an operation
IsOperation(c) ==
    c.fn \in {"perform_binary_operation", "perform_unary_operation",
              "operator()", "square", "sqrt", "average"}
\* the last call reported no failure
Succeeded == IF prog = "C" THEN error = CALC_SUCCESS ELSE error = NoThrow
\* the first Len(h) entries of h2 are those of h, in place
KeepsEntries(h, h2) == Len(h2) >= Len(h) /\ SubSeq(h2, 1, Len(h)) = h

----------------------------------------------------------------------------
(* C1: after any sequence of operations the ledger holds between 0 and     *)
(* MAX_HISTORY entries, in the C calculator (history_count) and in the C++ *)
(* calculator (history_.size()).                                           *)
C1_LedgerWithinCapacity ==
    pc = "ready" => Size >= 0 /\ Size <= MAX_HISTORY

----------------------------------------------------------------------------
(* C2: an operation that fails appends no history entry and leaves the     *)
(* calculator (name, precision, history flag, ledger size and entries)     *)
(* exactly as it was before the call.                                      *)
C2_FailureLeavesCalculatorUntouched ==
    [][(IsOperation(call') /\ ~Succeeded') => calc' = calc]_vars

\* a division by zero failed on a ledger that holds entries
C2_Witness ==
    /\ IsOperation(call) /\ ~Succeeded
    /\ Size > 0
    /\ error \in {CALC_ERROR_DIVISION_BY_ZERO, DivisionByZero}

----------------------------------------------------------------------------
(* More vocabulary: what a C call's engine function yields from the state  *)
(* before the call, and what a C++ call yields on a given object.          *)

ValidC(c) ==
    c.args.calc # NULL /\ c.args.op_func # NULL /\ c.args.result # NULL

EngineC(c) ==
    IF c.fn = "perform_binary_operation"
    THEN binary_op_func(c.args.op_func, c.args.a, c.args.b, c.args.result,
                        [result |-> result, errno |-> errno])
    ELSE unary_op_func(c.args.op_func, c.args.a, c.args.result,
                       [result |-> result, errno |-> errno])

MethodCpp(obj, c) ==
    CASE c.fn = "operator()" -> call_operator(obj, c.args.a, c.args.b, c.args.op)
      [] c.fn = "square"     -> square(obj, c.args)
      [] c.fn = "sqrt"       -> sqrt(obj, c.args)
      [] c.fn = "average"    -> average(obj, c.args)

\* the step is a successful operation that hands back the rounded value an
\* enabled, roomy ledger would have been given
ReturnsRounded ==
    IF prog = "C"
    THEN /\ ValidC(call')
         /\ EngineC(call').error = CALC_SUCCESS
         /\ error' = CALC_SUCCESS
         /\ result' = round_to_precision(EngineC(call').mem.result, calc.precision)
    ELSE /\ error' = NoThrow
         /\ result' = MethodCpp([calc EXCEPT !.enable_history = TRUE], call').ret

\* the step appends exactly one entry, after the ones there, and the entry
\* records the value handed back
AppendsOne ==
    /\ Size' = Size + 1
    /\ Len(Ledger') = Len(Ledger) + 1
    /\ KeepsEntries(Ledger, Ledger')
    /\ Ledger'[Len(Ledger')].result = result'

IsClear(c) ==
    \/ c.fn = "clearHistory"
    \/ c.fn = "clear_history" /\ c.calc # NULL

IsToggle(c) == c.fn \in {"setHistoryEnabled", "enable_history"}

----------------------------------------------------------------------------
----------------------------------------------------------------------------
(* C4: no call other than a clear changes, reorders or removes an entry:   *)
(* the entry stored at index i stays at index i.  On a C ledger that holds *)
(* MAX_HISTORY entries, an operation whose engine function succeeds still  *)
(* returns CALC_SUCCESS with the rounded result and leaves the calculator, *)
(* all MAX_HISTORY entries included, as it was.                            *)
C4_EntriesStayUntilCleared ==
    [][ /\ ~IsClear(call') => KeepsEntries(Ledger, Ledger')
        /\ ( /\ prog = "C" /\ Size = MAX_HISTORY
             /\ IsOperation(call') /\ ValidC(call')
             /\ EngineC(call').error = CALC_SUCCESS )
           => (ReturnsRounded /\ calc' = calc)
      ]_vars

\* the 101st successful operation on a ledger whose last slot holds an
\* entry of another kind than the ones before it
C4_Witness ==
    /\ prog = "C" /\ epoch = "init" /\ nsucc > MAX_HISTORY
    /\ Size = MAX_HISTORY
    /\ IsOperation(call) /\ Succeeded
    /\ Ledger[MAX_HISTORY].operation # Ledger[1].operation

----------------------------------------------------------------------------
(* C5: a clear leaves the ledger empty whatever it held and whatever the   *)
(* history flag, and changes neither name, precision nor the flag; after   *)
(* it, with the history enabled, the n-th successful operation is stored   *)
(* as entry n, behind the ones before it, for every n <= MAX_HISTORY.      *)
C5_ClearEmptiesTheLedger ==
    [][ /\ IsClear(call') =>
            /\ Size' = 0 /\ Ledger' = <<>>
            /\ calc'.name = calc.name
            /\ calc'.precision = calc.precision
            /\ calc'.enable_history = calc.enable_history
        /\ (epoch' = "cleared" /\ nsucc' <= MAX_HISTORY) => Size' = nsucc'
        /\ ( /\ epoch = "cleared" /\ Size < MAX_HISTORY
             /\ IsOperation(call') /\ Succeeded' )
           => AppendsOne
      ]_vars

\* a ledger cleared and then filled again to its capacity
C5_Witness ==
    /\ epoch = "cleared"
    /\ nsucc = MAX_HISTORY
    /\ Size = MAX_HISTORY
    /\ prog = "C"

----------------------------------------------------------------------------
(* C6: switching the history on or off changes no entry and not the size;  *)
(* while it is off a successful operation returns its rounded result and   *)
(* appends nothing; while it is on (again) a successful operation on a     *)
(* ledger with room appends one entry behind the ones there.               *)
C6_ToggleAffectsOnlyLaterOperations ==
    [][ /\ IsToggle(call') => (Ledger' = Ledger /\ Size' = Size)
        /\ (IsOperation(call') /\ ~calc.enable_history)
           => /\ Ledger' = Ledger /\ Size' = Size
              /\ Succeeded' => ReturnsRounded
        /\ ( /\ IsOperation(call') /\ calc.enable_history
             /\ Succeeded' /\ Size < MAX_HISTORY )
           => AppendsOne
      ]_vars

\* a successful operation while the history is off, on a ledger that holds
\* an entry from before
C6_Witness ==
    /\ ~calc.enable_history
    /\ IsOperation(call) /\ Succeeded
    /\ Size = 1

----------------------------------------------------------------------------
(* C7: what power(base, exp) returns depends on base and exp alone: it is  *)
(* CALC_ERROR_OVERFLOW exactly when base^exp is outside the finite range,  *)
(* whatever ran before.                                                    *)
C7_PowerDependsOnItsInputsOnly ==
    ( /\ prog = "C" /\ call.fn = "perform_binary_operation"
      /\ ValidC(call) /\ call.args.op_func = "calc_power" )
    => /\ error \in {CALC_SUCCESS, CALC_ERROR_OVERFLOW}
       /\ (error = CALC_ERROR_OVERFLOW) <=> Pow(call.args.a, call.args.b).range

----------------------------------------------------------------------------
(* C8: in every calculator state a division by exactly 0 yields            *)
(* DivisionByZero and a square root of x < 0 yields NegativeRoot, and the  *)
(* C calculator returns the error code of its engine function unchanged.   *)
C8_EngineFailuresPassThrough ==
    [][ /\ (prog = "C" /\ IsOperation(call') /\ ValidC(call')) =>
            /\ error' = EngineC(call').error
            /\ (call'.args.op_func = "calc_divide" /\ call'.args.b = 0)
               => error' = CALC_ERROR_DIVISION_BY_ZERO
            /\ (call'.args.op_func = "calc_sqrt" /\ call'.args.a < 0)
               => error' = CALC_ERROR_NEGATIVE_ROOT
        /\ (prog = "CPP" /\ call'.fn = "operator()"
                /\ call'.args.op = "DIVIDE" /\ call'.args.b = 0)
           => error' = DivisionByZero
        /\ (prog = "CPP" /\ call'.fn = "sqrt" /\ call'.args < 0)
           => error' = NegativeRoot
      ]_vars

\* a division by zero on a full ledger with the history off
C8_Witness ==
    /\ prog = "C" /\ Size = MAX_HISTORY /\ ~calc.enable_history
    /\ call.fn = "perform_binary_operation" /\ ValidC(call)
    /\ call.args.op_func = "calc_divide" /\ call.args.b = 0
    /\ error = CALC_ERROR_DIVISION_BY_ZERO

----------------------------------------------------------------------------
(* C9: constructing a calculator fails with InvalidInput when the name is  *)
(* absent or empty; on success the calculator starts with an empty ledger, *)
(* the history enabled, and the given name and precision.                  *)
C9_ConstructionRejectsAbsentOrEmptyName ==
    /\ call.fn = "calculator_init" =>
        /\ (call.name.null \/ call.name.chars = <<>>)
           => error = CALC_ERROR_INVALID_INPUT
        /\ error = CALC_SUCCESS =>
            /\ calc.history_count = 0 /\ calc.enable_history
            /\ calc.name = call.name.chars
            /\ calc.precision = call.precision
    /\ call.fn = "CalculatorBase" =>
        /\ call.name = <<>> => error # NoThrow
        /\ error = NoThrow =>
            /\ Len(calc.history) = 0 /\ calc.enable_history
            /\ calc.name = call.name
            /\ calc.precision = call.precision

(* C9 as the code has it: calculator_init fails with                       *)
(* CALC_ERROR_INVALID_INPUT exactly when the calculator or the name        *)
(* pointer is null; an empty name is accepted.  On success the ledger is   *)
(* empty, the history enabled, the precision the given one and the name    *)
(* the first MAX_NAME_LENGTH - 1 characters of the given one.  The C++     *)
(* constructor never fails and stores the name and precision as given.     *)
C9_ConstructionRejectsNullOnly ==
    /\ call.fn = "calculator_init" =>
        /\ error \in {CALC_SUCCESS, CALC_ERROR_INVALID_INPUT}
        /\ (error = CALC_ERROR_INVALID_INPUT) <=> (call.calc = NULL \/ call.name.null)
        /\ (pc = "ready") <=> (error = CALC_SUCCESS)
        /\ error = CALC_SUCCESS =>
            /\ calc.history_count = 0 /\ calc.history = <<>>
            /\ calc.enable_history
            /\ calc.precision = call.precision
            /\ Len(calc.name) = Min(Len(call.name.chars), MAX_NAME_LENGTH - 1)
            /\ \A i \in 1..Len(calc.name) : calc.name[i] = call.name.chars[i]
    /\ call.fn = "CalculatorBase" =>
        /\ error = NoThrow /\ pc = "ready"
        /\ calc.history = <<>> /\ calc.enable_history
        /\ calc.name = call.name
        /\ calc.precision = call.precision

\* calculator_init has accepted an empty name
C9_Witness ==
    /\ call.fn = "calculator_init"
    /\ ~call.name.null /\ call.name.chars = <<>>
    /\ error = CALC_SUCCESS /\ pc = "ready"

----------------------------------------------------------------------------
(* C10: every history entry holds one or two operands: the two operands of *)
(* a binary operation, the single operand of a unary one (square, square   *)
(* root), never more than two and never a placeholder.                     *)
UnaryKinds == {"OP_SQUARE", "OP_SQRT", "SQUARE", "SQRT"}

C10_EntriesHoldOneOrTwoOperands ==
    pc = "ready" =>
        \A i \in 1..Len(Ledger) :
            /\ Len(Ledger[i].operands) \in {1, 2}
            /\ Ledger[i].operation \in UnaryKinds => Len(Ledger[i].operands) = 1

(* C10 as the code has it.  C: every entry holds exactly two operand       *)
(* slots; perform_binary_operation stores (a, b) and                       *)
(* perform_unary_operation stores (a, 0.0), the second slot a placeholder. *)
(* C++: operator() stores (a, b), square and sqrt store (x), and average   *)
(* stores every number it was given, one or more.                          *)
OperandsOf(c) ==
    CASE c.fn = "perform_binary_operation" -> <<c.args.a, c.args.b>>
      [] c.fn = "perform_unary_operation"  -> <<c.args.a, 0>>
      [] c.fn = "operator()"               -> <<c.args.a, c.args.b>>
      [] c.fn \in {"square", "sqrt"}       -> <<c.args>>
      [] c.fn = "average"                  -> c.args

C10_OperandsAsStored ==
    [][ (IsOperation(call') /\ Ledger' # Ledger) =>
            /\ Len(Ledger') = Len(Ledger) + 1
            /\ Ledger'[Len(Ledger')].operands = OperandsOf(call')
            /\ \A i \in 1..Len(Ledger') :
                IF prog = "C"
                THEN Len(Ledger'[i].operands) = 2
                ELSE Len(Ledger'[i].operands) >= 1
      ]_vars

\* a unary operation has just filled the last slot of a C ledger
C10_Witness ==
    /\ prog = "C" /\ epoch = "init" /\ nsucc = MAX_HISTORY
    /\ Size = MAX_HISTORY
    /\ call.fn = "perform_unary_operation" /\ Succeeded
    /\ Ledger[Size].operands = <<call.args.a, 0>>
    /\ call.args.a # 0

----------------------------------------------------------------------------
(* The utility functions: factorial and is_prime of calculator.c,          *)
(* MathUtils::factorial and MathUtils::isPrime of calculator.cpp, and gcd  *)
(* and lcm of IntegerCalculator.  None of them reads or writes a           *)
(* calculator; they run under UtilSpec, whose caller passes them every     *)
(* argument of the input sets below.                                       *)

\* a % b of C and C++ for any a and b # 0: the sign follows the dividend
Rem(a, b) == Sgn(a) * (Abs(a) % Abs(b))
\* a / b on ints, b # 0: truncation toward zero
Quot(a, b) == Sgn(a) * Sgn(b) * (Abs(a) \div Abs(b))

\* Faulty variant: the loop tests n % i only, not n % (i + 2).
is_prime_loop_OneDivisor(n, i) ==
    LET RECURSIVE loop(_)
        loop(j) ==
            IF j * j <= n
            THEN IF Rem(n, j) = 0 THEN 0 ELSE loop(j + 6)
            ELSE 1
    IN  loop(i)

RECURSIVE is_prime_loop(_, _)
\* for (int i = 5; i * i <= n; i += 6), entered with i
is_prime_loop(n, i) ==
    IF i * i <= n
    THEN IF Rem(n, i) = 0 \/ Rem(n, i + 2) = 0
         THEN 0
         ELSE is_prime_loop(n, i + 6)
    ELSE 1

is_prime(n) ==
    IF n <= 1 THEN 0
    ELSE IF n <= 3 THEN 1
    ELSE IF Rem(n, 2) = 0 \/ Rem(n, 3) = 0 THEN 0
    ELSE is_prime_loop(n, 5)

RECURSIVE isPrime_loop(_, _)
isPrime_loop(n, i) ==
    IF i * i <= n
    THEN IF Rem(n, i) = 0 \/ Rem(n, i + 2) = 0
         THEN FALSE
         ELSE isPrime_loop(n, i + 6)
    ELSE TRUE

isPrime(n) ==
    IF n <= 1 THEN FALSE
    ELSE IF n <= 3 THEN TRUE
    ELSE IF Rem(n, 2) = 0 \/ Rem(n, 3) = 0 THEN FALSE
    ELSE isPrime_loop(n, 5)

\* the arguments the primality tests are given
MaxPrimeArg == 10000
PrimeArgs == (-5)..MaxPrimeArg

\* UtilSpec: a constructed calculator that stays as it is, and a caller
\* (main) about to make one utility call, call.next
Planned(fn, args) == [fn |-> "main", next |-> [fn |-> fn, args |-> args]]

UtilReady(p, fn) ==
    prog = p /\ pc = "ready" /\ call.fn = "main" /\ call.next.fn = fn

\* a C utility returns a value and has no error code
UtilReturnC(v) ==
    /\ call' = call.next
    /\ result' = v
    /\ UNCHANGED <<prog, pc, calc, error, errno, epoch, nsucc>>

\* a C++ utility returns a value or throws
UtilOutcomeCpp(r) ==
    /\ call' = call.next
    /\ error' = r.thrown
    /\ result' = IF r.thrown = NoThrow THEN r.ret ELSE result
    /\ UNCHANGED <<prog, pc, calc, errno, epoch, nsucc>>

CallIsPrimeC ==
    /\ UtilReady("C", "is_prime")
    /\ UtilReturnC(is_prime(call.next.args))

CallIsPrimeCpp ==
    /\ UtilReady("CPP", "isPrime")
    /\ UtilOutcomeCpp(Returned(calc, isPrime(call.next.args)))

----------------------------------------------------------------------------
(* factorial.  A long long does not fit a number of the checker, so an     *)
(* integer value is a sign and a magnitude, the magnitude a sequence of    *)
(* NLimbs digits in base LimbBase, least significant first.                *)

LimbBase == 1000000
NLimbs == 4

Small(v) == [i \in 1..NLimbs |-> IF i = 1 THEN v ELSE 0]
Positive(mag) == [neg |-> FALSE, mag |-> mag]
Negative(mag) == [neg |-> TRUE, mag |-> mag]

\* 2^31 - 1 and 2^63 - 1
INT_MAX_limbs == <<483647, 2147, 0, 0>>
LLONG_MAX_limbs == <<775807, 36854, 223372, 9>>
MaxOf(T) == IF T = "int" THEN INT_MAX_limbs ELSE LLONG_MAX_limbs

RECURSIVE MulLimbs(_, _, _, _)
\* the limbs i.. of x * n + carry * LimbBase^(i-1), for 0 <= n < 2^10
MulLimbs(x, n, i, carry) ==
    IF i > NLimbs THEN <<>>
    ELSE LET t == x[i] * n + carry
         IN  <<t % LimbBase>> \o MulLimbs(x, n, i + 1, t \div LimbBase)
Times(x, n) == MulLimbs(x, n, 1, 0)

RECURSIVE LeqFrom(_, _, _)
\* x <= y on the limbs 1..i
LeqFrom(x, y, i) ==
    IF i = 0 THEN TRUE
    ELSE IF x[i] # y[i] THEN x[i] < y[i]
    ELSE LeqFrom(x, y, i - 1)
Leq(x, y) == LeqFrom(x, y, NLimbs)

\* n * r in the type T (n >= 0, r >= 0): the product when T can hold it;
\* otherwise signed overflow, which is undefined behaviour
TimesIn(T, n, r) ==
    IF r.ub THEN r
    ELSE LET prod == Times(r.mag, n)
         IN  IF Leq(prod, MaxOf(T))
             THEN [ub |-> FALSE, mag |-> prod]
             ELSE [ub |-> TRUE, mag |-> prod]

RECURSIVE factorial(_)
\* long long factorial(int n): -1 for n < 0
factorial(n) ==
    IF n < 0 THEN [ub |-> FALSE, neg |-> TRUE, mag |-> Small(1)]
    ELSE IF n <= 1 THEN [ub |-> FALSE, neg |-> FALSE, mag |-> Small(1)]
    ELSE [neg |-> FALSE] @@ TimesIn("long long", n, factorial(n - 1))

NegativeFactorial == "Factorial is only defined for non-negative numbers"

RECURSIVE MathUtils_factorial(_, _)
\* template<typename T> static T factorial(T n); the caller's argument
\* fixes T (factorial(5) computes in int)
MathUtils_factorial(T, n) ==
    IF n < 0 THEN [thrown |-> NegativeFactorial]
    ELSE IF n <= 1
         THEN [thrown |-> NoThrow, ub |-> FALSE, neg |-> FALSE, mag |-> Small(1)]
         ELSE [thrown |-> NoThrow, neg |-> FALSE]
              @@ TimesIn(T, n, MathUtils_factorial(T, n - 1))

\* what undefined behaviour may hand back in place of a value
Indeterminate ==
    {Negative(Small(1)), Positive(Small(0)), Positive(Small(1)),
     Positive(INT_MAX_limbs), Positive(LLONG_MAX_limbs)}
Outcomes(r) ==
    IF r.ub THEN Indeterminate ELSE {[neg |-> r.neg, mag |-> r.mag]}

MaxFactorialArg == 21
FactorialArgs == (-3)..MaxFactorialArg
IntegerTypes == {"int", "long long"}

CallFactorialC ==
    /\ UtilReady("C", "factorial")
    /\ \E v \in Outcomes(factorial(call.next.args.n)) : UtilReturnC(v)

CallFactorialCpp ==
    /\ UtilReady("CPP", "MathUtils::factorial")
    /\ LET r == MathUtils_factorial(call.next.args.T, call.next.args.n)
       IN  IF r.thrown # NoThrow
           THEN UtilOutcomeCpp(Threw(calc, r.thrown))
           ELSE \E v \in Outcomes(r) : UtilOutcomeCpp(Returned(calc, v))

----------------------------------------------------------------------------
(* IntegerCalculator::gcd and lcm, on 32-bit ints *)

INT_MAX == 2147483647

RECURSIVE gcd_loop(_, _)
\* while (b != 0) { temp = b; b = a % b; a = temp; }
gcd_loop(a, b) == IF b # 0 THEN gcd_loop(b, Rem(a, b)) ELSE a

gcd(a, b) == gcd_loop(Abs(a), Abs(b))

\* a * b does not fit an int
MulOverflows(a, b) == b # 0 /\ Abs(a) > INT_MAX \div Abs(b)

\* std::abs(a * b) / gcd(a, b): signed overflow of a * b and the integer
\* division by gcd(0, 0) = 0 are undefined behaviour; no exception is thrown
lcm(a, b) ==
    IF MulOverflows(a, b) \/ gcd(a, b) = 0
    THEN [ub |-> TRUE]
    ELSE [ub |-> FALSE, ret |-> Abs(a * b) \div gcd(a, b)]

\* the signal that ends the process on an integer division by zero
SIGFPE == "SIGFPE"
\* what undefined behaviour may hand back in place of an int
IndeterminateInts == {-1, 0, 1, INT_MAX}

MaxIntArg == 50
\* an argument whose square does not fit an int: 2^16
LargeArg == 65536
IntArgs == ((-6)..MaxIntArg) \cup {LargeArg}

CallGcd ==
    /\ UtilReady("CPP", "gcd")
    /\ UtilOutcomeCpp(Returned(calc, gcd(call.next.args.a, call.next.args.b)))

CallLcm ==
    /\ UtilReady("CPP", "lcm")
    /\ LET r == lcm(call.next.args.a, call.next.args.b)
       IN  IF ~r.ub
           THEN UtilOutcomeCpp(Returned(calc, r.ret))
           ELSE \/ \E v \in IndeterminateInts : UtilOutcomeCpp(Returned(calc, v))
                \/ /\ pc' = "aborted"
                   /\ call' = call.next
                   /\ error' = SIGFPE
                   /\ UNCHANGED <<prog, calc, result, errno, epoch, nsucc>>

----------------------------------------------------------------------------
(* UtilSpec *)

UtilCalls(p) ==
    IF p = "C"
    THEN {Planned("is_prime", n) : n \in PrimeArgs}
         \cup {Planned("factorial", [n |-> n, T |-> "long long"]) :
                 n \in FactorialArgs}
    ELSE {Planned("isPrime", n) : n \in PrimeArgs}
         \cup {Planned("MathUtils::factorial", [n |-> n, T |-> T]) :
                 n \in FactorialArgs, T \in IntegerTypes}
         \cup {Planned(f, [a |-> a, b |-> b]) :
                 f \in {"gcd", "lcm"}, a \in IntArgs, b \in IntArgs}

UtilInit ==
    \E p \in {"C", "CPP"} :
        /\ prog = p
        /\ pc = "ready"
        /\ calc = IF p = "C"
                  THEN calculator_init("&calc", [null |-> FALSE, chars |-> <<>>], 0).calc
                  ELSE CalculatorBase(<<>>, 0)
        /\ call \in UtilCalls(p)
        /\ error = (IF p = "C" THEN CALC_SUCCESS ELSE NoThrow)
        /\ result = 0
        /\ errno = NoErrno
        /\ epoch = "init"
        /\ nsucc = 0

UtilNext ==
    \/ CallIsPrimeC
    \/ CallIsPrimeCpp
    \/ CallFactorialC
    \/ CallFactorialCpp
    \/ CallGcd
    \/ CallLcm

UtilSpec == UtilInit /\ [][UtilNext]_vars

----------------------------------------------------------------------------
(* C11: is_prime(n) and MathUtils::isPrime(n) agree with primality by      *)
(* trial division (n > 1 and no divisor d with 1 < d < n) for every n of   *)
(* PrimeArgs, -5..10000: false for n <= 1, true for 2 and 3, and the       *)
(* 6k+-1 loop ends with the right answer for the others.                   *)
TrialDivisionPrime(n) == n > 1 /\ \A d \in 2..(n - 1) : n % d # 0

C11_PrimalityMatchesTrialDivision ==
    /\ call.fn = "is_prime" =>
        /\ result \in {0, 1}
        /\ (result = 1) <=> TrialDivisionPrime(call.args)
        /\ call.args <= 1 => result = 0
        /\ call.args \in {2, 3} => result = 1
    /\ call.fn = "isPrime" =>
        /\ result \in BOOLEAN
        /\ result <=> TrialDivisionPrime(call.args)
        /\ call.args <= 1 => ~result
        /\ call.args \in {2, 3} => result
        /\ error = NoThrow

\* the loop has run to i = 101 and found 9973 prime
C11_Witness ==
    /\ call.fn = "is_prime" /\ call.args = 9973
    /\ result = 1

----------------------------------------------------------------------------
(* C12: factorial(n) signals a failure for every n < 0 (-1 in C, an        *)
(* exception in C++), returns 1 for n in {0, 1}, and for 2 <= n <= 20      *)
(* returns the exact product n * (n-1) * ... * 1, the accumulator being    *)
(* 64-bit signed, so that overflow begins only beyond n = 20.              *)
RECURSIVE ProductFrom(_, _, _)
\* acc * k * (k+1) * ... * n, exactly
ProductFrom(k, n, acc) ==
    IF k > n THEN acc ELSE ProductFrom(k + 1, n, Times(acc, k))
ExactProduct(n) == ProductFrom(2, n, Small(1))

C12_FactorialExactThroughTwenty ==
    call.fn \in {"factorial", "MathUtils::factorial"} =>
        LET n == call.args.n
        IN  /\ n < 0 => IF prog = "C"
                        THEN result = Negative(Small(1))
                        ELSE error = NegativeFactorial
            /\ (n >= 0 /\ prog = "CPP") => error = NoThrow
            /\ n \in {0, 1} => result = Positive(Small(1))
            /\ (2 <= n /\ n <= 20) => result = Positive(ExactProduct(n))
            /\ n > 20 => ~Leq(ExactProduct(n), LLONG_MAX_limbs)

----------------------------------------------------------------------------
(* C13: for all ints a, b the Euclidean loop of gcd(a, b) ends and returns *)
(* the greatest common divisor of |a| and |b| (gcd(a, 0) = |a|,            *)
(* gcd(48, 18) = 6); for a, b not both zero lcm(a, b) = |a*b| / gcd(a, b)  *)
(* (lcm(12, 8) = 24); and lcm(0, 0), where gcd is 0, ends in a reported,   *)
(* recoverable failure (an exception the caller can catch), not in a       *)
(* process abort.                                                          *)
CommonDivisors(x, y) ==
    {d \in 1..(IF x > y THEN x ELSE y) : x % d = 0 /\ y % d = 0}
\* of x, y >= 0; 0 when both are 0
GreatestCommonDivisor(x, y) ==
    IF x = 0 /\ y = 0 THEN 0
    ELSE CHOOSE d \in CommonDivisors(x, y) : \A e \in CommonDivisors(x, y) : e <= d

C13_GcdLcmTotalAndExact ==
    /\ call.fn = "gcd" =>
        /\ pc = "ready" /\ error = NoThrow
        /\ result = GreatestCommonDivisor(Abs(call.args.a), Abs(call.args.b))
        /\ call.args.b = 0 => result = Abs(call.args.a)
        /\ (call.args.a = 48 /\ call.args.b = 18) => result = 6
    /\ call.fn = "lcm" =>
        /\ pc = "ready"
        /\ IF call.args.a = 0 /\ call.args.b = 0
           THEN error \notin {NoThrow, SIGFPE}
           ELSE /\ error = NoThrow
                \* |a*b| / gcd, written so that the product is never formed
                /\ result =
                     (Abs(call.args.a)
                        \div GreatestCommonDivisor(Abs(call.args.a), Abs(call.args.b)))
                     * Abs(call.args.b)
                /\ (call.args.a = 12 /\ call.args.b = 8) => result = 24

----------------------------------------------------------------------------
(* IntegerCalculator: AdvancedCalculator<int> with precision 0 and the     *)
(* extra method modulo.  Its operands and results are ints (no Unit).  It  *)
(* runs under IntSpec.                                                     *)

IntegerCalculator(name) == CalculatorBase(name, 0)

\* roundToPrecision on T = int: factor = pow(10, precision_) as an int,
\* std::round(value * factor) / factor converted back to int
roundToPrecision_int(c, value) ==
    Quot(Round(value * Pow10(c.precision), 1), Pow10(c.precision))

\* AdvancedCalculator<int>::divide: a / b truncates toward zero
divide_int(c, a, b) ==
    IF b = 0 THEN Threw(c, DivisionByZero)
    ELSE LET res == roundToPrecision_int(c, Quot(a, b))
         IN  Returned(addToHistory(c, "DIVIDE", <<a, b>>, res), res)

ModuloByZero == "Modulo by zero"

\* logs a % b under OperationType::DIVIDE
modulo(c, a, b) ==
    IF b = 0 THEN Threw(c, ModuloByZero)
    ELSE LET res == Rem(a, b)
         IN  Returned(addToHistory(c, "DIVIDE", <<a, b>>, res), res)

\* the history lengths explored
MaxIntLen == 2
IntOperands == {0, 5, 17}

IntInit ==
    /\ prog = "INT"
    /\ pc = "ready"
    /\ calc = IntegerCalculator(<<>>)
    /\ call = [fn |-> "IntegerCalculator", name |-> <<>>]
    /\ error = NoThrow
    /\ result = 0
    /\ errno = NoErrno
    /\ epoch = "none"
    /\ nsucc = 0

IntOutcome(name, args, r) ==
    /\ calc' = r.calc
    /\ call' = [fn |-> name, args |-> args]
    /\ error' = r.thrown
    /\ result' = IF r.thrown = NoThrow THEN r.ret ELSE result
    /\ UNCHANGED <<prog, pc, errno, epoch, nsucc>>

IntReady == prog = "INT" /\ pc = "ready" /\ Len(calc.history) < MaxIntLen

IntModulo ==
    /\ IntReady
    /\ \E a \in IntOperands, b \in IntOperands :
        IntOutcome("modulo", [a |-> a, b |-> b], modulo(calc, a, b))

IntDivide ==
    /\ IntReady
    /\ \E a \in IntOperands, b \in IntOperands :
        IntOutcome("divide", [a |-> a, b |-> b], divide_int(calc, a, b))

IntSetHistoryEnabled ==
    /\ prog = "INT" /\ pc = "ready"
    /\ \E e \in BOOLEAN :
        /\ calc' = setHistoryEnabled(calc, e)
        /\ call' = [fn |-> "setHistoryEnabled", enabled |-> e]
    /\ UNCHANGED <<prog, pc, error, result, errno, epoch, nsucc>>

IntClearHistory ==
    /\ prog = "INT" /\ pc = "ready"
    /\ calc' = clearHistory(calc)
    /\ call' = [fn |-> "clearHistory"]
    /\ UNCHANGED <<prog, pc, error, result, errno, epoch, nsucc>>

IntNext ==
    \/ IntModulo
    \/ IntDivide
    \/ IntSetHistoryEnabled
    \/ IntClearHistory

IntSpec == IntInit /\ [][IntNext]_vars

----------------------------------------------------------------------------
(* C14: every history entry is self-consistent: its recorded result is the *)
(* value the call that created it returned, and that value is the rounded  *)
(* result of applying the entry's recorded operation kind to the entry's   *)
(* recorded operands, for every logging entry point, modulo of             *)
(* IntegerCalculator and perform_binary_operation with any (operation tag, *)
(* function) pair included.                                                *)

\* the engine function of an operation tag of the C program
FunctionOf(kind) ==
    CASE kind = "OP_ADD"      -> "calc_add"
      [] kind = "OP_SUBTRACT" -> "calc_subtract"
      [] kind = "OP_MULTIPLY" -> "calc_multiply"
      [] kind = "OP_DIVIDE"   -> "calc_divide"
      [] kind = "OP_POWER"    -> "calc_power"
      [] kind = "OP_SQUARE"   -> "calc_square"
      [] kind = "OP_SQRT"     -> "calc_sqrt"

\* the entry's kind applied to the entry's operands yields the entry's result
KindYieldsResult(e) ==
    CASE prog = "C" ->
            LET m0 == [result |-> 0, errno |-> NoErrno]
                r  == IF e.operation \in UnaryKinds
                      THEN unary_op_func(FunctionOf(e.operation), e.operands[1],
                                         "&result", m0)
                      ELSE binary_op_func(FunctionOf(e.operation), e.operands[1],
                                          e.operands[2], "&result", m0)
            IN  /\ r.error = CALC_SUCCESS
                /\ e.result = round_to_precision(r.mem.result, calc.precision)
      [] prog = "CPP" ->
            LET obj == CalculatorBase(<<>>, calc.precision)
                r   == CASE e.operation \in {"SQUARE", "SQRT"} ->
                                MethodCpp(obj, [fn |-> IF e.operation = "SQUARE"
                                                       THEN "square" ELSE "sqrt",
                                                args |-> e.operands[1]])
                         [] e.operation = "AVERAGE" -> average(obj, e.operands)
                         [] OTHER ->
                                call_operator(obj, e.operands[1], e.operands[2],
                                              e.operation)
            IN  r.thrown = NoThrow /\ e.result = r.ret
      [] prog = "INT" ->
            LET r == IF e.operation = "DIVIDE"
                     THEN divide_int(IntegerCalculator(<<>>), e.operands[1],
                                     e.operands[2])
                     ELSE Threw(calc, InvalidBinary)
            IN  r.thrown = NoThrow /\ e.result = r.ret

C14_EntriesSelfConsistent ==
    [][ Len(Ledger') = Len(Ledger) + 1 =>
            /\ Ledger'[Len(Ledger')].result = result'
            /\ KindYieldsResult(Ledger'[Len(Ledger')])
      ]_vars

----------------------------------------------------------------------------
(* C15: when perform_binary_operation or perform_unary_operation (and the  *)
(* engine function it calls) returns an error code other than              *)
(* CALC_SUCCESS, the caller's result target still holds the value it had   *)
(* before the call; it is written only on success, with the rounded        *)
(* result.                                                                 *)
C15_ResultWrittenOnSuccessOnly ==
    [][ (prog = "C" /\ IsOperation(call')) =>
            /\ error' # CALC_SUCCESS => result' = result
            /\ error' = CALC_SUCCESS => ReturnsRounded
      ]_vars

====
